---------------------------- MODULE Spec2Model ----------------------------
(***************************************************************************)
(* Model of the two custom on-disk index engines of building-an-index:     *)
(*   - the flat sorted-index store  (src/src/backends/dat_btree.rs)        *)
(*   - the open-addressing hash store (src/src/backends/dat_hash.rs)       *)
(* and of the shared read/write contract (src/src/store.rs).               *)
(*                                                                         *)
(* A file is a sequence of bytes.  Rust offsets are 0-based; Slice(d,a,b)  *)
(* is the Rust slice d[a..b].  Integers are written to the file as         *)
(* little-endian byte strings and read back by decoding them.              *)
(***************************************************************************)
EXTENDS Integers, Sequences, FiniteSets, TLC

VARIABLES
    hashOf,       \* the value DefaultHasher yields for each key (std, opaque)
    fileExists,   \* whether a file exists at the path
    file,         \* the bytes of the file at the path
    sealedBy,     \* who wrote the file: "none" | "btree" | "hash" | "foreign"
    pc,           \* "idle" | "building" | "sealed" | "opened"
    builderKind,  \* "none" | "btree" | "hash"
    btEntries,    \* BTreeDatStoreBuilder.entries: a map key -> value
    hashEntries,  \* HashDatStoreBuilder.entries: a vector of <<key, value>>
    inserted,     \* history: every insert call made on the builder, in order
    store,        \* the value open returned
    result,       \* the last read operation on the store and what it returned
    store2,       \* the value a second open of the same path returned
    result2,      \* the last read operation on store2 and what it returned
    borrowed,     \* the borrow flag of the RefCell around data_file
    callers       \* the state of each caller inside HashDatStore::read_at

vars == <<hashOf, fileExists, file, sealedBy, pc, builderKind, btEntries,
          hashEntries, inserted, store, result, store2, result2, borrowed,
          callers>>

\* The state of the second handle and of the callers of read_at, which the
\* operations on the builder and on the first handle leave alone.
others == <<store2, result2, borrowed, callers>>

---------------------------------------------------------------------------
(* Bounds of the model. *)

\* The largest number of insert calls made on one builder.
MaxEntries == 3

\* Keys and values are opaque byte strings.  <<1>> is a proper prefix of
\* <<1, 2>>; byte order is <<1>> < <<1, 2>> < <<2>>.
Keys == { <<1>>, <<1, 2>>, <<2>> }

\* The pairs an insert call may be given: two values for every key, of
\* lengths 0, 1 and 2 and of different bytes.
Pairs ==
    { << <<1>>, <<>> >>,     << <<1>>, <<7>> >>,
      << <<1, 2>>, <<7>> >>, << <<1, 2>>, <<8, 9>> >>,
      << <<2>>, <<8, 9>> >>, << <<2>>, <<>> >> }

\* The raw 64-bit values the hasher may yield.  0 is the value hash_key remaps
\* to 1; 1 and 4 share the start bucket when bucket_count = 3, and 4 is the
\* last bucket when bucket_count = 5.  Two keys may hash to the same value.
HashVals == { 0, 4 }

---------------------------------------------------------------------------
(* Bytes and little-endian integers. *)

Slice(d, a, b) == SubSeq(d, a + 1, b)

Zeros(n) == [i \in 1..n |-> 0]

RECURSIVE ToLe(_, _)
\* n.to_le_bytes() for an integer of w bytes
ToLe(n, w) == IF w = 0 THEN <<>> ELSE <<n % 256>> \o ToLe(n \div 256, w - 1)

RECURSIVE FromLe(_)
\* uN::from_le_bytes(b)
FromLe(b) == IF b = <<>> THEN 0 ELSE b[1] + 256 * FromLe(Tail(b))

RECURSIVE Concat(_)
\* the concatenation of a sequence of byte strings
Concat(ss) == IF ss = <<>> THEN <<>> ELSE ss[1] \o Concat(Tail(ss))

RECURSIVE SumLen(_)
SumLen(ss) == IF ss = <<>> THEN 0 ELSE Len(ss[1]) + SumLen(Tail(ss))

\* Mutant: only the common prefix is compared.
RECURSIVE SliceCmpPrefix(_, _)
SliceCmpPrefix(a, b) ==
    IF a = <<>> \/ b = <<>> THEN "Equal"
    ELSE IF a[1] < b[1] THEN "Less"
    ELSE IF a[1] > b[1] THEN "Greater"
    ELSE SliceCmpPrefix(Tail(a), Tail(b))

\* Ord for byte slices: "Less" | "Equal" | "Greater" (lexicographic by
\* unsigned byte, a proper prefix is smaller).
RECURSIVE SliceCmp(_, _)
SliceCmp(a, b) ==
    IF a = <<>> /\ b = <<>> THEN "Equal"
    ELSE IF a = <<>> THEN "Less"
    ELSE IF b = <<>> THEN "Greater"
    ELSE IF a[1] < b[1] THEN "Less"
    ELSE IF a[1] > b[1] THEN "Greater"
    ELSE SliceCmp(Tail(a), Tail(b))

\* Results of fallible operations.
Some(v) == [kind |-> "some", value |-> v]
None == [kind |-> "none"]
Err == [kind |-> "err"]
Panic == [kind |-> "panic"]

NoStore == [kind |-> "none"]
NoResult == [op |-> "none"]

\* The callers of read_at on the shared handle, and a caller outside it.
Callers == { 1, 2 }
Outside == [at |-> "outside"]
NoCallers == [c \in Callers |-> Outside]

---------------------------------------------------------------------------
(* Flat sorted-index store: dat_btree.rs *)

BTREE_MAGIC == <<66, 84, 82, 69, 69, 73, 68, 88>>      \* b"BTREEIDX"
HEADER_SIZE == 64

\* Mutant: the map is walked in descending order.
RECURSIVE BTreeMapOrderDescending(_)
BTreeMapOrderDescending(S) ==
    IF S = {} THEN <<>>
    ELSE LET m == CHOOSE x \in S : \A y \in S : SliceCmp(x, y) # "Less"
         IN  <<m>> \o BTreeMapOrderDescending(S \ {m})

\* The keys of a BTreeMap in iteration order (ascending by Ord).
RECURSIVE BTreeMapOrder(_)
BTreeMapOrder(S) ==
    IF S = {} THEN <<>>
    ELSE LET m == CHOOSE x \in S : \A y \in S : SliceCmp(x, y) # "Greater"
         IN  <<m>> \o BTreeMapOrder(S \ {m})

\* Mutant: an insert of a key already present is dropped.
BTreeMapInsertKeepFirst(m, k, v) ==
    [x \in (DOMAIN m) \cup {k} |-> IF x \in DOMAIN m THEN m[x] ELSE v]

\* BTreeMap::insert: a later insert of the same key replaces the value.
BTreeMapInsert(m, k, v) ==
    [x \in (DOMAIN m) \cup {k} |-> IF x = k THEN v ELSE m[x]]

\* Mutant: the running blob offset is never advanced.
BTreeBlobOffsetNoAdvance(entries, order, i, blob_heap_offset) ==
    blob_heap_offset

\* The blob offset finish gives the i-th entry in map order: the running
\* current_blob_offset, advanced by the length of every earlier value.
BTreeBlobOffset(entries, order, i, blob_heap_offset) ==
    blob_heap_offset + SumLen([j \in 1..(i - 1) |-> entries[order[j]]])

\* One index entry: key_len, key, blob_offset, blob_len.
BTreeEntryBytes(key, blob_offset, blob_len) ==
    ToLe(Len(key), 4) \o key \o ToLe(blob_offset, 8) \o ToLe(blob_len, 8)

\* Mutant: the 4-byte key length prefix is left out of the size.
BTreeSizeNoPrefix(order) ==
    SumLen([i \in 1..Len(order) |-> order[i]]) + Len(order) * (8 + 8)

\* The size of the index region finish computes before writing: for every
\* entry key_len + key + blob_offset + blob_len.
BTreeSize(order) ==
    SumLen([i \in 1..Len(order) |-> order[i]]) + Len(order) * (4 + 8 + 8)

\* BTreeDatStoreBuilder::finish: the bytes written to the file.
BTreeFinishBytes(entries) ==
    LET order == BTreeMapOrder(DOMAIN entries)
        n == Len(order)
        btree_root_offset == HEADER_SIZE
        btree_size == BTreeSize(order)
        blob_heap_offset == btree_root_offset + btree_size
        index == Concat([i \in 1..n |->
                    BTreeEntryBytes(order[i],
                        BTreeBlobOffset(entries, order, i, blob_heap_offset),
                        Len(entries[order[i]]))])
        heap == Concat([i \in 1..n |-> entries[order[i]]])
        header == BTREE_MAGIC \o ToLe(btree_root_offset, 8)
                  \o ToLe(blob_heap_offset, 8) \o ToLe(n, 8) \o Zeros(32)
    IN  header \o index \o heap

\* Mutant: entry_count is decoded from the bytes of blob_heap_offset.
BTreeReadHeaderCountSlip(data) ==
    IF Len(data) < HEADER_SIZE THEN Err
    ELSE IF Slice(data, 0, 8) # BTREE_MAGIC THEN Err
    ELSE [kind |-> "ok",
          btree_root_offset |-> FromLe(Slice(data, 8, 16)),
          blob_heap_offset |-> FromLe(Slice(data, 16, 24)),
          entry_count |-> FromLe(Slice(data, 16, 24))]

\* Mutant: the magic tag is not compared.
BTreeReadHeaderNoMagic(data) ==
    IF Len(data) < HEADER_SIZE THEN Err
    ELSE [kind |-> "ok",
          btree_root_offset |-> FromLe(Slice(data, 8, 16)),
          blob_heap_offset |-> FromLe(Slice(data, 16, 24)),
          entry_count |-> FromLe(Slice(data, 24, 32))]

\* BTreeDatStore::read_header
BTreeReadHeader(data) ==
    IF Len(data) < HEADER_SIZE THEN Err
    ELSE IF Slice(data, 0, 8) # BTREE_MAGIC THEN Err
    ELSE [kind |-> "ok",
          btree_root_offset |-> FromLe(Slice(data, 8, 16)),
          blob_heap_offset |-> FromLe(Slice(data, 16, 24)),
          entry_count |-> FromLe(Slice(data, 24, 32))]

\* BTreeDatStore::open: File::open, Mmap::map, read_header.
BTreeOpen(exists, data) ==
    IF ~exists THEN Err
    ELSE LET h == BTreeReadHeader(data)
         IN  IF h.kind = "err" THEN Err
             ELSE [kind |-> "btree", mmap |-> data,
                   btree_root_offset |-> h.btree_root_offset,
                   blob_heap_offset |-> h.blob_heap_offset,
                   entry_count |-> h.entry_count]

\* Mutant: the Greater arm continues the scan instead of returning None.
BTreeMatchArmNoEarlyExit(c) ==
    IF c = "Equal" THEN "some" ELSE "continue"

\* Mutant: the Greater arm returns the entry instead of None.
BTreeMatchArmGreaterFound(c) ==
    IF c = "Less" THEN "continue" ELSE "some"

\* The arms of `match entry_key.cmp(key)` in find_key: return Some, return
\* None (sorted, so the key does not exist), or continue.
BTreeMatchArm(c) ==
    IF c = "Equal" THEN "some" ELSE IF c = "Greater" THEN "none" ELSE "continue"

\* The outcome of a scan together with the number of index entries whose
\* key the loop of find_key compared with the target.
Scanned(r, visited) == [res |-> r, visited |-> visited]

\* The scan loop of BTreeDatStore::find_key from a given offset, after
\* `visited` entries.  A slice that reaches past the end of the mapping
\* panics.
RECURSIVE BTreeFindFrom(_, _, _, _, _)
BTreeFindFrom(data, offset, btree_end, key, visited) ==
    IF ~(offset < btree_end) THEN Scanned(None, visited)
    ELSE IF offset + 4 > btree_end THEN Scanned(None, visited)
    ELSE IF offset + 4 > Len(data) THEN Scanned(Panic, visited)
    ELSE LET key_len == FromLe(Slice(data, offset, offset + 4))
             o1 == offset + 4
         IN  IF o1 + key_len + 16 > btree_end THEN Scanned(None, visited)
             ELSE IF o1 + key_len + 16 > Len(data)
                  THEN Scanned(Panic, visited)
             ELSE LET entry_key == Slice(data, o1, o1 + key_len)
                      o2 == o1 + key_len
                      blob_offset == FromLe(Slice(data, o2, o2 + 8))
                      blob_len == FromLe(Slice(data, o2 + 8, o2 + 16))
                      arm == BTreeMatchArm(SliceCmp(entry_key, key))
                  IN  IF arm = "some"
                      THEN Scanned(Some(<<blob_offset, blob_len>>),
                                   visited + 1)
                      ELSE IF arm = "none" THEN Scanned(None, visited + 1)
                      ELSE BTreeFindFrom(data, o2 + 16, btree_end, key,
                                         visited + 1)

\* BTreeDatStore::find_key
BTreeFindKey(s, key) ==
    BTreeFindFrom(s.mmap, s.btree_root_offset, s.blob_heap_offset, key, 0)

\* BTreeDatStore::get_blob
BTreeGetBlob(s, offset, len) ==
    IF offset + len > Len(s.mmap) THEN Panic
    ELSE Some(Slice(s.mmap, offset, offset + len))

\* BTreeDatStore::get
BTreeGet(s, key) ==
    LET f == BTreeFindKey(s, key)
    IN  IF f.res.kind = "some"
        THEN Scanned(BTreeGetBlob(s, f.res.value[1], f.res.value[2]),
                     f.visited)
        ELSE f

\* The scan loop of BTreeDatStore::keys from a given offset.
RECURSIVE BTreeKeysFrom(_, _, _, _)
BTreeKeysFrom(data, offset, btree_end, keys) ==
    IF ~(offset < btree_end) THEN Some(keys)
    ELSE IF offset + 4 > btree_end THEN Some(keys)
    ELSE IF offset + 4 > Len(data) THEN Panic
    ELSE LET key_len == FromLe(Slice(data, offset, offset + 4))
             o1 == offset + 4
         IN  IF o1 + key_len + 16 > btree_end THEN Some(keys)
             ELSE IF o1 + key_len > Len(data) THEN Panic
             ELSE BTreeKeysFrom(data, o1 + key_len + 16, btree_end,
                                Append(keys, Slice(data, o1, o1 + key_len)))

\* BTreeDatStore::keys
BTreeKeys(s) ==
    BTreeKeysFrom(s.mmap, s.btree_root_offset, s.blob_heap_offset, <<>>)

\* BTreeDatStore::len
BTreeLen(s) == s.entry_count

---------------------------------------------------------------------------
(* Open-addressing hash store: dat_hash.rs *)

HASH_MAGIC == <<72, 65, 83, 72, 73, 68, 88, 49>>       \* b"HASHIDX1"
BUCKET_SIZE == 24
EmptyBucket == [key_hash |-> 0, blob_offset |-> 0, blob_len |-> 0]

\* Mutant: the hasher's value as it is.
hash_key_raw(key) == hashOf[key]

\* HashDatStore::hash_key: the hasher's value, with 0 remapped to 1.
hash_key(key) ==
    LET h == hashOf[key]
    IN  IF h = 0 THEN 1 ELSE h

\* f64 arithmetic of finish's bucket count.  A number of up to 57 bits is
\* held as <<hi, lo>> = hi * F64_LIMB + lo, and the division runs in
\* hexadecimal digits.
F64_LIMB == 134217728                                   \* 2^27
F64_MANTISSA_BITS == 53
\* LOAD_FACTOR = 0.7: the f64 nearest to 0.7 is
\* (LOAD_FACTOR_HI * 2^27 + LOAD_FACTOR_LO) * 2^-53 = 0x3FE6666666666666.
LOAD_FACTOR_HI == 46976204
LOAD_FACTOR_LO == 107374182

\* d times the significand of LOAD_FACTOR, for a digit d.
TimesLoadFactor(d) ==
    <<d * LOAD_FACTOR_HI + (d * LOAD_FACTOR_LO) \div F64_LIMB,
      (d * LOAD_FACTOR_LO) % F64_LIMB>>

\* a <= b and b - a for numbers in limbs.
LimbsLeq(a, b) == a[1] < b[1] \/ (a[1] = b[1] /\ a[2] <= b[2])
LimbsMinus(b, a) ==
    IF b[2] >= a[2] THEN <<b[1] - a[1], b[2] - a[2]>>
    ELSE <<b[1] - a[1] - 1, b[2] + F64_LIMB - a[2]>>

\* One step of the long division by the significand of LOAD_FACTOR: the
\* remainder r is shifted by one digit, the next dividend digit is brought
\* down, and the quotient digit q is the largest that fits.
DivStep(r, digit) ==
    LET lo == 16 * r[2] + digit
        x == <<16 * r[1] + lo \div F64_LIMB, lo % F64_LIMB>>
        q == CHOOSE d \in 0..15 :
                 /\ LimbsLeq(TimesLoadFactor(d), x)
                 /\ d < 15 => ~LimbsLeq(TimesLoadFactor(d + 1), x)
    IN  [r |-> LimbsMinus(x, TimesLoadFactor(q)), q |-> q]

\* The number of bits of a natural number.
RECURSIVE BitLen(_)
BitLen(x) == IF x = 0 THEN 0 ELSE 1 + BitLen(x \div 2)

\* The quotient of a dividend, given as its hexadecimal digits from digit t
\* on, by the significand: the quotient digits and the remainder.
RECURSIVE F64Div(_, _, _, _)
F64Div(digits, t, r, q) ==
    IF t > Len(digits) THEN [r |-> r, q |-> q]
    ELSE LET s == DivStep(r, digits[t])
         IN  IF s.q \in 0..15 /\ s.r[2] >= 0
             THEN F64Div(digits, t + 1, s.r, Append(q, s.q))
             ELSE [r |-> r, q |-> q]

\* The value of a sequence of hexadecimal digits.
RECURSIVE HexValue(_)
HexValue(q) ==
    IF q = <<>> THEN 0 ELSE 16 * HexValue(SubSeq(q, 1, Len(q) - 1)) + q[Len(q)]

\* Bit i (from 1, the most significant) of a sequence of hexadecimal digits.
HexBit(q, i) ==
    LET d == q[(i + 3) \div 4]
        within == (i - 1) % 4
    IN  IF within = 0 THEN d \div 8 ELSE IF within = 1 THEN (d \div 4) % 2
        ELSE IF within = 2 THEN (d \div 2) % 2 ELSE d % 2

\* Mutant: the ceiling of the exact quotient entry_count / 0.7.
F64DivCeilExact(entry_count) == (10 * entry_count + 6) \div 7

\* (entry_count as f64 / LOAD_FACTOR).ceil() for entry_count < 2048: the
\* quotient entry_count * 2^53 / significand is rounded to 53 significant
\* bits, to nearest with ties to even, and then up to an integer.
F64DivCeil(entry_count) ==
    IF entry_count = 0 THEN 0
    ELSE LET n2 == 2 * entry_count
             int == F64Div(<<n2 \div 256, (n2 \div 16) % 16, n2 % 16,
                             0, 0, 0, 0, 0, 0, 0, 0, 0, 0, 0, 0, 0>>,
                           1, <<0, 0>>, <<>>)
             whole == HexValue(int.q)
             frac == F64Div(<<0, 0, 0, 0, 0, 0, 0, 0, 0, 0, 0, 0, 0, 0>>,
                            1, int.r, <<>>)
             kept == F64_MANTISSA_BITS - BitLen(whole)
             zero == \A i \in 1..kept : HexBit(frac.q, i) = 0
             last == IF kept = 0 THEN whole % 2 ELSE HexBit(frac.q, kept)
             sticky == \/ frac.r # <<0, 0>>
                       \/ \E i \in (kept + 2)..56 : HexBit(frac.q, i) = 1
             up == HexBit(frac.q, kept + 1) = 1 /\ (sticky \/ last = 1)
         IN  IF zero /\ ~up THEN whole ELSE whole + 1

\* Mutant: one bucket per entry.
BucketCountForExact(entry_count) == IF entry_count < 1 THEN 1 ELSE entry_count

\* ((entry_count as f64 / LOAD_FACTOR).ceil() as usize).max(1)
BucketCountFor(entry_count) ==
    LET c == F64DivCeil(entry_count)
    IN  IF c < 1 THEN 1 ELSE c

\* Mutant: the probe steps to the previous bucket instead of the next.
RECURSIVE ProbeEmptyBackward(_, _, _)
ProbeEmptyBackward(buckets, index, bucket_count) ==
    IF buckets[index].key_hash = 0 THEN index
    ELSE ProbeEmptyBackward(buckets, (index + bucket_count - 1) % bucket_count,
                            bucket_count)

\* Mutant: no probing, an occupied start bucket is overwritten.
ProbeEmptyNoProbe(buckets, index, bucket_count) == index

\* The inner probe loop of finish: the first empty bucket from index on.
RECURSIVE ProbeEmpty(_, _, _)
ProbeEmpty(buckets, index, bucket_count) ==
    IF buckets[index].key_hash = 0 THEN index
    ELSE ProbeEmpty(buckets, (index + 1) % bucket_count, bucket_count)

\* Mutant: the bucket's length leaves out the 4-byte key length prefix.
BlobLenNoPrefix(key, value) == Len(key) + Len(value)

\* The length finish stores in the bucket of a record: key_len + key + value.
BlobLen(key, value) == 4 + Len(key) + Len(value)

\* The outer loop of finish over entries i..Len(entries): the state is the
\* bucket table (indexed from 0), the heap bytes and the heap cursor.
RECURSIVE HashPlace(_, _, _, _, _, _)
HashPlace(entries, i, buckets, bucket_count, blob_heap, current_blob_offset) ==
    IF i > Len(entries) THEN [buckets |-> buckets, blob_heap |-> blob_heap]
    ELSE LET key == entries[i][1]
             value == entries[i][2]
             key_hash == hash_key(key)
             index == ProbeEmpty(buckets, key_hash % bucket_count, bucket_count)
             blob_len == BlobLen(key, value)
         IN  HashPlace(entries, i + 1,
                       [buckets EXCEPT ![index] =
                           [key_hash |-> key_hash,
                            blob_offset |-> current_blob_offset,
                            blob_len |-> blob_len]],
                       bucket_count,
                       blob_heap \o ToLe(Len(key), 4) \o key \o value,
                       current_blob_offset + blob_len)

\* HashDatStoreBuilder::finish: the bucket table and heap it builds.  The
\* bucket count is computed once, as `let bucket_count` does.
HashBuild(entries) ==
    LET entry_count == Len(entries)
        Table(bucket_count) ==
            LET blob_heap_offset == HEADER_SIZE + bucket_count * BUCKET_SIZE
                built == HashPlace(entries, 1,
                             [b \in 0..(bucket_count - 1) |-> EmptyBucket],
                             bucket_count, <<>>, blob_heap_offset)
            IN  [bucket_count |-> bucket_count,
                 blob_heap_offset |-> blob_heap_offset,
                 entry_count |-> entry_count, buckets |-> built.buckets,
                 blob_heap |-> built.blob_heap]
    IN  CHOOSE t \in { Table(bucket_count) :
                         bucket_count \in { BucketCountFor(entry_count) } } :
            TRUE

\* HashDatStoreBuilder::finish: the bytes written to the file, from the
\* table and heap that were built once.
HashFinishBytes(entries) ==
    LET Written(t) ==
            LET header == HASH_MAGIC \o ToLe(t.bucket_count, 8)
                          \o ToLe(t.blob_heap_offset, 8)
                          \o ToLe(t.entry_count, 8) \o Zeros(32)
                table == Concat([i \in 1..t.bucket_count |->
                            ToLe(t.buckets[i - 1].key_hash, 8)
                            \o ToLe(t.buckets[i - 1].blob_offset, 8)
                            \o ToLe(t.buckets[i - 1].blob_len, 8)])
            IN  header \o table \o t.blob_heap
    IN  CHOOSE bytes \in { Written(t) : t \in { HashBuild(entries) } } : TRUE

\* Mutant: the declared heap offset is not compared.
HashHeapOffsetUnchecked(blob_heap_offset, expected_blob_heap_offset) == TRUE

\* The check of open on the declared heap offset.
HashHeapOffsetOk(blob_heap_offset, expected_blob_heap_offset) ==
    blob_heap_offset = expected_blob_heap_offset

\* HashDatStore::open.  read_exact fails when the file is too short.  The
\* cursor of the freshly opened data_file is at 0.
HashOpen(exists, data) ==
    IF ~exists THEN Err
    ELSE IF Len(data) < HEADER_SIZE THEN Err
    ELSE IF Slice(data, 0, 8) # HASH_MAGIC THEN Err
    ELSE LET bucket_count == FromLe(Slice(data, 8, 16))
             blob_heap_offset == FromLe(Slice(data, 16, 24))
             entry_count == FromLe(Slice(data, 24, 32))
             expected_blob_heap_offset == HEADER_SIZE + bucket_count * BUCKET_SIZE
         IN  IF ~HashHeapOffsetOk(blob_heap_offset, expected_blob_heap_offset)
             THEN Err
             ELSE IF Len(data) < HEADER_SIZE + bucket_count * BUCKET_SIZE THEN Err
             ELSE [kind |-> "hash",
                   buckets |-> [i \in 0..(bucket_count - 1) |->
                       LET off == HEADER_SIZE + i * BUCKET_SIZE
                       IN  [key_hash |-> FromLe(Slice(data, off, off + 8)),
                            blob_offset |-> FromLe(Slice(data, off + 8, off + 16)),
                            blob_len |-> FromLe(Slice(data, off + 16, off + 24))]],
                   data_file |-> data,
                   pos |-> 0,
                   bucket_count |-> bucket_count,
                   entry_count |-> entry_count]

\* A result together with the position of the file cursor it leaves.
At(r, pos) == [res |-> r, pos |-> pos]

\* Mutant: the offset is taken relative to the cursor (SeekFrom::Current).
SeekCurrent(pos, offset) == pos + offset

\* file.seek(SeekFrom::Start(offset)): the new position of the cursor.
SeekStart(pos, offset) == offset

\* file.read_exact(&mut buf) of len bytes with the cursor at p: it fails at
\* the end of the file unless len is 0.
ReadExact(s, p, len) ==
    LET size == Len(s.data_file)
    IN  IF len = 0 THEN At(Some(<<>>), p)
        ELSE IF p + len > size THEN At(Err, IF p > size THEN p ELSE size)
        ELSE At(Some(Slice(s.data_file, p, p + len)), p + len)

\* HashDatStore::read_at with the cursor of data_file at pos, run without
\* interruption: seek, then read_exact.
HashReadAt(s, pos, offset, len) == ReadExact(s, SeekStart(pos, offset), len)

\* Mutant: a bucket with the target's hash is taken without reading its key.
HashKeyAtUnverified(s, pos, blob_offset, key) == At(Some(TRUE), pos)

\* Whether the heap record at blob_offset holds key: Some(TRUE | FALSE), or
\* the error of a failed read.
HashKeyAt(s, pos, blob_offset, key) ==
    LET key_len_buf == HashReadAt(s, pos, blob_offset, 4)
    IN  IF key_len_buf.res.kind # "some" THEN key_len_buf
        ELSE LET key_len == FromLe(key_len_buf.res.value)
                 stored_key == HashReadAt(s, key_len_buf.pos, blob_offset + 4,
                                          key_len)
             IN  IF stored_key.res.kind # "some" THEN stored_key
                 ELSE At(Some(stored_key.res.value = key), stored_key.pos)

\* A find_key outcome: the result, the cursor, the buckets examined.
Probed(r, pos, probes) == [res |-> r, pos |-> pos, probes |-> probes]

\* The probe loop of HashDatStore::find_key with n iterations left, after
\* probes buckets were examined.
RECURSIVE HashProbe(_, _, _, _, _, _, _)
HashProbe(s, pos, key, key_hash, index, n, probes) ==
    IF n = 0 THEN Probed(None, pos, probes)
    ELSE LET b == s.buckets[index]
         IN  IF b.key_hash = 0 THEN Probed(None, pos, probes + 1)
             ELSE IF b.key_hash = key_hash
                  THEN LET m == HashKeyAt(s, pos, b.blob_offset, key)
                       IN  IF m.res.kind # "some"
                           THEN Probed(m.res, m.pos, probes + 1)
                           ELSE IF m.res.value
                                THEN Probed(Some(<<b.blob_offset, b.blob_len>>),
                                            m.pos, probes + 1)
                                ELSE HashProbe(s, m.pos, key, key_hash,
                                               (index + 1) % s.bucket_count,
                                               n - 1, probes + 1)
                  ELSE HashProbe(s, pos, key, key_hash,
                                 (index + 1) % s.bucket_count, n - 1, probes + 1)

\* Mutant: the loop runs over 0..=bucket_count.
ProbeLimitInclusive(bucket_count) == bucket_count + 1

\* The number of iterations of `for _ in 0..bucket_count`.
ProbeLimit(bucket_count) == bucket_count

\* HashDatStore::find_key.  A remainder by zero panics.
HashFindKey(s, key) ==
    IF s.bucket_count = 0 THEN Probed(Panic, s.pos, 0)
    ELSE HashProbe(s, s.pos, key, hash_key(key),
                   hash_key(key) % s.bucket_count, ProbeLimit(s.bucket_count), 0)

\* HashDatStore::get_blob
HashGetBlob(s, pos, offset, len) ==
    LET blob_data == HashReadAt(s, pos, offset, len)
    IN  IF blob_data.res.kind # "some" THEN blob_data
        ELSE IF len < 4 THEN At(Panic, blob_data.pos)
        ELSE LET key_len == FromLe(Slice(blob_data.res.value, 0, 4))
                 value_start == 4 + key_len
             IN  IF len < 4 + key_len THEN At(Panic, blob_data.pos)
                 ELSE At(Some(Slice(blob_data.res.value, value_start, len)),
                         blob_data.pos)

\* HashDatStore::get
HashGet(s, key) ==
    LET f == HashFindKey(s, key)
    IN  IF f.res.kind = "some"
        THEN LET g == HashGetBlob(s, f.pos, f.res.value[1], f.res.value[2])
             IN  Probed(g.res, g.pos, f.probes)
        ELSE f

\* The loop of HashDatStore::keys over buckets i..bucket_count-1.
RECURSIVE HashKeysFrom(_, _, _, _)
HashKeysFrom(s, pos, i, keys) ==
    IF i >= s.bucket_count THEN At(Some(keys), pos)
    ELSE LET b == s.buckets[i]
         IN  IF b.key_hash = 0 THEN HashKeysFrom(s, pos, i + 1, keys)
             ELSE LET blob_data == HashReadAt(s, pos, b.blob_offset, b.blob_len)
                  IN  IF blob_data.res.kind # "some" THEN blob_data
                      ELSE IF b.blob_len < 4 THEN At(Panic, blob_data.pos)
                      ELSE LET key_len == FromLe(Slice(blob_data.res.value, 0, 4))
                           IN  IF 4 + key_len > b.blob_len
                               THEN At(Panic, blob_data.pos)
                               ELSE HashKeysFrom(s, blob_data.pos, i + 1,
                                        Append(keys, Slice(blob_data.res.value,
                                                           4, 4 + key_len)))

\* Mutant: the bucket scan starts at bucket 1.
HashKeysSkipFirst(s) == HashKeysFrom(s, s.pos, 1, <<>>)

\* HashDatStore::keys
HashKeys(s) == HashKeysFrom(s, s.pos, 0, <<>>)

\* HashDatStore::len
HashLen(s) == s.entry_count

---------------------------------------------------------------------------
(* The shared contract: store.rs.  A read operation yields its result and, *)
(* for the hash store, the cursor it leaves in data_file.                  *)

\* BlobStore::get
StoreGet(s, key) ==
    IF s.kind = "btree"
    THEN LET g == BTreeGet(s, key)
         IN  [res |-> g.res, pos |-> 0, visited |-> g.visited]
    ELSE HashGet(s, key)

\* BlobStore::keys
StoreKeys(s) ==
    IF s.kind = "btree" THEN At(BTreeKeys(s), 0) ELSE HashKeys(s)

\* BlobStore::len
StoreLen(s) == IF s.kind = "btree" THEN BTreeLen(s) ELSE HashLen(s)

\* BlobStore::is_empty (the provided method)
StoreIsEmpty(s) == StoreLen(s) = 0

\* The store after a read operation: only the cursor of the hash store's
\* data_file moves (interior mutability behind &self).
AfterCall(s, pos) == IF s.kind = "hash" THEN [s EXCEPT !.pos = pos] ELSE s

\* What a get that returned r records as its outcome: the result and the
\* number of buckets (hash store) or index entries (flat store) that
\* find_key examined.
GetOutcome(kind, k, r) ==
    IF kind = "hash"
    THEN [op |-> "get", key |-> k, res |-> r.res, probes |-> r.probes]
    ELSE [op |-> "get", key |-> k, res |-> r.res, visited |-> r.visited]

---------------------------------------------------------------------------
(* Files that were not written by either builder. *)

BTreeHeaderBytes(root, heap, count) ==
    BTREE_MAGIC \o ToLe(root, 8) \o ToLe(heap, 8) \o ToLe(count, 8) \o Zeros(32)

HashHeaderBytes(bucket_count, heap, count) ==
    HASH_MAGIC \o ToLe(bucket_count, 8) \o ToLe(heap, 8) \o ToLe(count, 8)
    \o Zeros(32)

\* The serialization of one bucket: three little-endian u64.
HashBucketBytes(key_hash, blob_offset, blob_len) ==
    ToLe(key_hash, 8) \o ToLe(blob_offset, 8) \o ToLe(blob_len, 8)

\* A heap record: key length, key, value.
HashRecordBytes(key, value) == ToLe(Len(key), 4) \o key \o value

\* A complete one-bucket file whose header declares the heap at the end of
\* the header instead of after the bucket array.
HeapOffsetMismatchFile ==
    HashHeaderBytes(1, HEADER_SIZE, 0) \o HashBucketBytes(0, 0, 0)

\* A well-formed file whose two buckets are both occupied, by the two
\* hashes that hash_key can return, with records of keys nobody looks up.
SaturatedFile ==
    HashHeaderBytes(2, HEADER_SIZE + 2 * BUCKET_SIZE, 2)
    \o HashBucketBytes(4, HEADER_SIZE + 2 * BUCKET_SIZE, 6)
    \o HashBucketBytes(1, HEADER_SIZE + 2 * BUCKET_SIZE + 6, 7)
    \o HashRecordBytes(<<9>>, <<5>>)
    \o HashRecordBytes(<<9, 9>>, <<6>>)

ForeignFiles ==
    { <<>>,                                   \* an empty file
      BTREE_MAGIC,                            \* shorter than a header
      HASH_MAGIC \o Zeros(8),                 \* shorter than a header
      Zeros(HEADER_SIZE),                     \* no magic tag
      BTreeHeaderBytes(64, 200, 1),           \* heap start beyond the end
      BTreeHeaderBytes(100, 100, 0),          \* index start beyond the end
      HashHeaderBytes(2, 112, 1),             \* bucket array beyond the end
      HashHeaderBytes(0, HEADER_SIZE, 0),     \* a table of no buckets
      HeapOffsetMismatchFile,
      SaturatedFile }

---------------------------------------------------------------------------
(* The state machine: one builder, one file, one opened store. *)

EmptyMap == [x \in {} |-> <<>>]

Init ==
    /\ hashOf \in [Keys -> HashVals]
    /\ fileExists = FALSE
    /\ file = <<>>
    /\ sealedBy = "none"
    /\ pc = "idle"
    /\ builderKind = "none"
    /\ btEntries = EmptyMap
    /\ hashEntries = <<>>
    /\ inserted = <<>>
    /\ store = NoStore
    /\ result = NoResult
    /\ store2 = NoStore
    /\ result2 = NoResult
    /\ borrowed = FALSE
    /\ callers = NoCallers

\* Mutant: create opens the output with File::create, as finish does.
BTreeCreateTruncating ==
    /\ pc = "idle"
    /\ pc' = "building"
    /\ builderKind' = "btree"
    /\ btEntries' = EmptyMap
    /\ file' = <<>>
    /\ fileExists' = TRUE
    /\ UNCHANGED <<others, hashOf, sealedBy, hashEntries, inserted, store,
                   result>>

\* BTreeDatStoreBuilder::create: records the path, touches no file.
BTreeCreate ==
    /\ pc = "idle"
    /\ pc' = "building"
    /\ builderKind' = "btree"
    /\ btEntries' = EmptyMap
    /\ UNCHANGED <<others, hashOf, fileExists, file, sealedBy, hashEntries,
                   inserted, store, result>>

\* HashDatStoreBuilder::create: records the path, touches no file.
HashCreate ==
    /\ pc = "idle"
    /\ pc' = "building"
    /\ builderKind' = "hash"
    /\ hashEntries' = <<>>
    /\ UNCHANGED <<others, hashOf, fileExists, file, sealedBy, btEntries,
                   inserted, store, result>>

\* BTreeDatStoreBuilder::insert
BTreeInsert(k, v) ==
    /\ pc = "building"
    /\ builderKind = "btree"
    /\ Len(inserted) < MaxEntries
    /\ btEntries' = BTreeMapInsert(btEntries, k, v)
    /\ inserted' = Append(inserted, <<k, v>>)
    /\ UNCHANGED <<others, hashOf, fileExists, file, sealedBy, pc,
                   builderKind, hashEntries, store, result>>

\* Mutant: an insert of a key already held replaces the value of its entry.
HashInsertDedup(k, v) ==
    /\ pc = "building"
    /\ builderKind = "hash"
    /\ Len(inserted) < MaxEntries
    /\ hashEntries' =
           IF \E i \in 1..Len(hashEntries) : hashEntries[i][1] = k
           THEN [i \in 1..Len(hashEntries) |->
                    IF hashEntries[i][1] = k THEN <<k, v>> ELSE hashEntries[i]]
           ELSE Append(hashEntries, <<k, v>>)
    /\ inserted' = Append(inserted, <<k, v>>)
    /\ UNCHANGED <<others, hashOf, fileExists, file, sealedBy, pc,
                   builderKind, btEntries, store, result>>

\* HashDatStoreBuilder::insert
HashInsert(k, v) ==
    /\ pc = "building"
    /\ builderKind = "hash"
    /\ Len(inserted) < MaxEntries
    /\ hashEntries' = Append(hashEntries, <<k, v>>)
    /\ inserted' = Append(inserted, <<k, v>>)
    /\ UNCHANGED <<others, hashOf, fileExists, file, sealedBy, pc,
                   builderKind, btEntries, store, result>>

\* BTreeDatStoreBuilder::finish: File::create, the writes, flush; the
\* builder is consumed.
BTreeFinish ==
    /\ pc = "building"
    /\ builderKind = "btree"
    /\ file' = BTreeFinishBytes(btEntries)
    /\ fileExists' = TRUE
    /\ sealedBy' = "btree"
    /\ pc' = "sealed"
    /\ builderKind' = "none"
    /\ btEntries' = EmptyMap
    /\ UNCHANGED <<others, hashOf, hashEntries, inserted, store, result>>

\* HashDatStoreBuilder::finish: File::create, the writes, flush; the
\* builder is consumed.
HashFinish ==
    /\ pc = "building"
    /\ builderKind = "hash"
    /\ file' = HashFinishBytes(hashEntries)
    /\ fileExists' = TRUE
    /\ sealedBy' = "hash"
    /\ pc' = "sealed"
    /\ builderKind' = "none"
    /\ hashEntries' = <<>>
    /\ UNCHANGED <<others, hashOf, btEntries, inserted, store, result>>

\* The path holds a file that no builder of this program wrote.
PlaceForeignFile(f) ==
    /\ pc = "idle"
    /\ file' = f
    /\ fileExists' = TRUE
    /\ sealedBy' = "foreign"
    /\ pc' = "sealed"
    /\ UNCHANGED <<others, hashOf, builderKind, btEntries, hashEntries,
                   inserted, store, result>>

\* What open returned, tagged with the engine when it is an error.
Opened(r, engine) ==
    IF r.kind = "err" THEN [kind |-> "err", engine |-> engine] ELSE r

\* BTreeDatStore::open on the path
BTreeOpenOp ==
    /\ pc \in {"idle", "sealed"}
    /\ store' = Opened(BTreeOpen(fileExists, file), "btree")
    /\ pc' = "opened"
    /\ UNCHANGED <<others, hashOf, fileExists, file, sealedBy, builderKind,
                   btEntries, hashEntries, inserted, result>>

\* HashDatStore::open on the path
HashOpenOp ==
    /\ pc \in {"idle", "sealed"}
    /\ store' = Opened(HashOpen(fileExists, file), "hash")
    /\ pc' = "opened"
    /\ UNCHANGED <<others, hashOf, fileExists, file, sealedBy, builderKind,
                   btEntries, hashEntries, inserted, result>>

\* get(key) on the opened store
GetOp(k) ==
    /\ pc = "opened"
    /\ store.kind \in {"btree", "hash"}
    /\ LET r == StoreGet(store, k)
       IN  /\ result' = GetOutcome(store.kind, k, r)
           /\ store' = AfterCall(store, r.pos)
    /\ UNCHANGED <<others, hashOf, fileExists, file, sealedBy, pc,
                   builderKind, btEntries, hashEntries, inserted>>

\* keys() on the opened store
KeysOp ==
    /\ pc = "opened"
    /\ store.kind \in {"btree", "hash"}
    /\ LET r == StoreKeys(store)
       IN  /\ result' = [op |-> "keys", res |-> r.res]
           /\ store' = AfterCall(store, r.pos)
    /\ UNCHANGED <<others, hashOf, fileExists, file, sealedBy, pc,
                   builderKind, btEntries, hashEntries, inserted>>

\* len() on the opened store
LenOp ==
    /\ pc = "opened"
    /\ store.kind \in {"btree", "hash"}
    /\ result' = [op |-> "len", res |-> StoreLen(store)]
    /\ UNCHANGED <<others, hashOf, fileExists, file, sealedBy, pc,
                   builderKind, btEntries, hashEntries, inserted, store>>

\* is_empty() on the opened store
IsEmptyOp ==
    /\ pc = "opened"
    /\ store.kind \in {"btree", "hash"}
    /\ result' = [op |-> "is_empty", res |-> StoreIsEmpty(store)]
    /\ UNCHANGED <<others, hashOf, fileExists, file, sealedBy, pc,
                   builderKind, btEntries, hashEntries, inserted, store>>

Next ==
    \/ BTreeCreate
    \/ HashCreate
    \/ \E kv \in Pairs : BTreeInsert(kv[1], kv[2])
    \/ \E kv \in Pairs : HashInsert(kv[1], kv[2])
    \/ BTreeFinish
    \/ HashFinish
    \/ \E f \in ForeignFiles : PlaceForeignFile(f)
    \/ BTreeOpenOp
    \/ HashOpenOp
    \/ \E k \in Keys : GetOp(k)
    \/ KeysOp
    \/ LenOp
    \/ IsEmptyOp

Spec == Init /\ [][Next]_vars

---------------------------------------------------------------------------
(* Building at a path that may already hold a file. *)

\* What the path may hold before a builder is created on it.
PriorFiles == { BTREE_MAGIC, SaturatedFile }

\* No builder yet; the path holds nothing or one of the prior files.
InitBuild ==
    /\ hashOf \in [Keys -> HashVals]
    /\ \/ fileExists = FALSE /\ file = <<>> /\ sealedBy = "none"
       \/ fileExists = TRUE /\ file \in PriorFiles /\ sealedBy = "foreign"
    /\ pc = "idle"
    /\ builderKind = "none"
    /\ btEntries = EmptyMap
    /\ hashEntries = <<>>
    /\ inserted = <<>>
    /\ store = NoStore
    /\ result = NoResult
    /\ store2 = NoStore
    /\ result2 = NoResult
    /\ borrowed = FALSE
    /\ callers = NoCallers

NextBuild ==
    \/ BTreeCreate
    \/ HashCreate
    \/ \E kv \in Pairs : BTreeInsert(kv[1], kv[2])
    \/ \E kv \in Pairs : HashInsert(kv[1], kv[2])
    \/ BTreeFinish
    \/ HashFinish

SpecBuild == InitBuild /\ [][NextBuild]_vars

---------------------------------------------------------------------------
(* Sealed files, for the scenarios that start after finish. *)

\* The largest number of insert calls behind a sealed file of these
\* scenarios.
MaxSealedEntries == 1

\* The insert sequences behind the sealed files.
SealedInputs == UNION { [1..n -> Pairs] : n \in 0..MaxSealedEntries }

\* BTreeDatStoreBuilder.entries after the first n inserts of e.
RECURSIVE BTreeMapOf(_, _)
BTreeMapOf(e, n) ==
    IF n = 0 THEN EmptyMap
    ELSE BTreeMapInsert(BTreeMapOf(e, n - 1), e[n][1], e[n][2])

\* The file that create, the inserts of e and finish of the engine's builder
\* leave at the path.
SealedBytes(engine, e) ==
    IF engine = "btree" THEN BTreeFinishBytes(BTreeMapOf(e, Len(e)))
    ELSE HashFinishBytes(e)

\* The state after finish of a builder of one of the engines.
InitSealed(engines) ==
    /\ hashOf \in [Keys -> HashVals]
    /\ inserted \in SealedInputs
    /\ sealedBy \in engines
    /\ file = SealedBytes(sealedBy, inserted)
    /\ fileExists = TRUE
    /\ pc = "sealed"
    /\ builderKind = "none"
    /\ btEntries = EmptyMap
    /\ hashEntries = <<>>
    /\ store = NoStore
    /\ result = NoResult
    /\ store2 = NoStore
    /\ result2 = NoResult
    /\ borrowed = FALSE
    /\ callers = NoCallers

---------------------------------------------------------------------------
(* Two handles on one sealed file. *)

InitTwo == InitSealed({"btree", "hash"})

\* BTreeDatStore::open on the path, a second time
BTreeOpenSecond ==
    /\ pc \in {"sealed", "opened"}
    /\ store2 = NoStore
    /\ store2' = Opened(BTreeOpen(fileExists, file), "btree")
    /\ UNCHANGED <<hashOf, fileExists, file, sealedBy, pc, builderKind,
                   btEntries, hashEntries, inserted, store, result, result2,
                   borrowed, callers>>

\* HashDatStore::open on the path, a second time
HashOpenSecond ==
    /\ pc \in {"sealed", "opened"}
    /\ store2 = NoStore
    /\ store2' = Opened(HashOpen(fileExists, file), "hash")
    /\ UNCHANGED <<hashOf, fileExists, file, sealedBy, pc, builderKind,
                   btEntries, hashEntries, inserted, store, result, result2,
                   borrowed, callers>>

\* get(key) on the second handle
GetSecond(k) ==
    /\ store2.kind \in {"btree", "hash"}
    /\ LET r == StoreGet(store2, k)
       IN  /\ result2' = GetOutcome(store2.kind, k, r)
           /\ store2' = AfterCall(store2, r.pos)
    /\ UNCHANGED <<hashOf, fileExists, file, sealedBy, pc, builderKind,
                   btEntries, hashEntries, inserted, store, result, borrowed,
                   callers>>

\* keys() on the second handle
KeysSecond ==
    /\ store2.kind \in {"btree", "hash"}
    /\ LET r == StoreKeys(store2)
       IN  /\ result2' = [op |-> "keys", res |-> r.res]
           /\ store2' = AfterCall(store2, r.pos)
    /\ UNCHANGED <<hashOf, fileExists, file, sealedBy, pc, builderKind,
                   btEntries, hashEntries, inserted, store, result, borrowed,
                   callers>>

\* len() on the second handle
LenSecond ==
    /\ store2.kind \in {"btree", "hash"}
    /\ result2' = [op |-> "len", res |-> StoreLen(store2)]
    /\ UNCHANGED <<hashOf, fileExists, file, sealedBy, pc, builderKind,
                   btEntries, hashEntries, inserted, store, result, store2,
                   borrowed, callers>>

NextTwo ==
    \/ BTreeOpenOp
    \/ HashOpenOp
    \/ BTreeOpenSecond
    \/ HashOpenSecond
    \/ \E k \in Keys : GetOp(k)
    \/ KeysOp
    \/ LenOp
    \/ \E k \in Keys : GetSecond(k)
    \/ KeysSecond
    \/ LenSecond

SpecTwo == InitTwo /\ [][NextTwo]_vars

---------------------------------------------------------------------------
(* Callers inside HashDatStore::read_at on one handle, step by step.  The  *)
(* RefCell makes the handle !Sync, so safe code cannot call it from two    *)
(* threads; the callers here are scheduled step by step all the same, and  *)
(* the dynamic borrow check is all that stands between them.               *)

InitReadAt == InitSealed({"hash"})

\* Mutant: the borrow is handed out without looking at the flag.
BorrowMutUnchecked(flag) == "ok"

\* RefCell::borrow_mut: panics when the value is already borrowed.
BorrowMut(flag) == IF flag THEN "panic" ELSE "ok"

\* The reads that get and keys issue on the store: of each occupied bucket
\* the key length, the key, and the whole record.
ReadRequests(s) ==
    UNION { LET b == s.buckets[i]
                key_len == FromLe(Slice(s.data_file, b.blob_offset,
                                        b.blob_offset + 4))
            IN  { <<b.blob_offset, 4>>, <<b.blob_offset + 4, key_len>>,
                  <<b.blob_offset, b.blob_len>> }
            : i \in { j \in DOMAIN s.buckets : s.buckets[j].key_hash # 0 } }

\* read_at(offset, len), line 70: let mut file = self.data_file.borrow_mut()
ReadAtBorrow(c) ==
    /\ pc = "opened" /\ store.kind = "hash"
    /\ callers[c].at = "outside"
    /\ \E q \in ReadRequests(store) :
           IF BorrowMut(borrowed) = "panic"
           THEN /\ callers' = [callers EXCEPT ![c] = [at |-> "panicked"]]
                /\ UNCHANGED borrowed
           ELSE /\ callers' = [callers EXCEPT ![c] =
                                  [at |-> "borrowed", offset |-> q[1],
                                   len |-> q[2]]]
                /\ borrowed' = TRUE
    /\ UNCHANGED <<hashOf, fileExists, file, sealedBy, pc, builderKind,
                   btEntries, hashEntries, inserted, store, result, store2,
                   result2>>

\* read_at, line 71: file.seek(SeekFrom::Start(offset))
ReadAtSeek(c) ==
    /\ callers[c].at = "borrowed"
    /\ store' = [store EXCEPT !.pos = SeekStart(store.pos, callers[c].offset)]
    /\ callers' = [callers EXCEPT ![c].at = "sought"]
    /\ UNCHANGED <<hashOf, fileExists, file, sealedBy, pc, builderKind,
                   btEntries, hashEntries, inserted, result, store2, result2,
                   borrowed>>

\* read_at, lines 72-73: file.read_exact(&mut buf) at the cursor
ReadAtReadExact(c) ==
    /\ callers[c].at = "sought"
    /\ LET r == ReadExact(store, store.pos, callers[c].len)
       IN  /\ store' = [store EXCEPT !.pos = r.pos]
           /\ callers' = [callers EXCEPT ![c] =
                             [at |-> "read", offset |-> callers[c].offset,
                              len |-> callers[c].len, buf |-> r.res]]
    /\ UNCHANGED <<hashOf, fileExists, file, sealedBy, pc, builderKind,
                   btEntries, hashEntries, inserted, result, store2, result2,
                   borrowed>>

\* read_at, line 74: Ok(buf), or the error of read_exact; the borrow ends
\* with the function.
ReadAtReturn(c) ==
    /\ callers[c].at = "read"
    /\ borrowed' = FALSE
    /\ callers' = [callers EXCEPT ![c] = Outside]
    /\ UNCHANGED <<hashOf, fileExists, file, sealedBy, pc, builderKind,
                   btEntries, hashEntries, inserted, store, result, store2,
                   result2>>

NextReadAt ==
    \/ HashOpenOp
    \/ \E c \in Callers : ReadAtBorrow(c)
    \/ \E c \in Callers : ReadAtSeek(c)
    \/ \E c \in Callers : ReadAtReadExact(c)
    \/ \E c \in Callers : ReadAtReturn(c)

SpecReadAt == InitReadAt /\ [][NextReadAt]_vars

---------------------------------------------------------------------------
(* Vocabulary of the properties. *)

InsertedKeys == { inserted[i][1] : i \in 1..Len(inserted) }

\* No key was inserted twice.
DistinctKeys ==
    \A i, j \in 1..Len(inserted) : i # j => inserted[i][1] # inserted[j][1]

\* The opened store was read from the file that the builder of its own
\* engine sealed.
Built(engine) == pc = "opened" /\ sealedBy = engine /\ store.kind = engine

\* open of the given engine returned an error.
OpenFailed(engine) ==
    pc = "opened" /\ store.kind = "err" /\ store.engine = engine

\* a is a proper prefix of b.
ProperPrefix(a, b) == Len(a) < Len(b) /\ SubSeq(b, 1, Len(a)) = a

\* Byte-lexicographic a < b, stated without the comparison of the model.
LexLess(a, b) ==
    \E n \in 0..Len(a) :
        /\ n <= Len(b)
        /\ SubSeq(a, 1, n) = SubSeq(b, 1, n)
        /\ \/ n = Len(a) /\ n < Len(b)
           \/ n < Len(a) /\ n < Len(b) /\ a[n + 1] < b[n + 1]

\* The start bucket of a key in the opened hash store.
StartBucket(k) == hash_key(k) % store.bucket_count

\* The key embedded in the heap record that a bucket points to, read from
\* the file.
RecordKey(b) ==
    Slice(file, b.blob_offset + 4,
          b.blob_offset + 4 + FromLe(Slice(file, b.blob_offset, b.blob_offset + 4)))

OccupiedBuckets ==
    { i \in DOMAIN store.buckets : store.buckets[i].key_hash # 0 }

\* The j-th occupied bucket in ascending index order.
NthOccupied(j) ==
    CHOOSE i \in OccupiedBuckets :
        Cardinality({ x \in OccupiedBuckets : x < i }) = j - 1

---------------------------------------------------------------------------
(* C1: flat store round trip.  After any insertion order of pairs with     *)
(* pairwise distinct keys, finish and BTreeDatStore::open, open succeeds   *)
(* and get(k) returns Some(v) with v the inserted value, for every         *)
(* inserted key k.                                                         *)
C1_FlatRoundTrip ==
    (sealedBy = "btree" /\ DistinctKeys) =>
        /\ ~OpenFailed("btree")
        /\ (Built("btree") /\ result.op = "get") =>
               \A i \in 1..Len(inserted) :
                   inserted[i][1] = result.key
                       => result.res = Some(inserted[i][2])

\* Three keys inserted in an order that is not the sorted one, and the get
\* of the middle key returned its two-byte value.
C1_Witness ==
    /\ Built("btree") /\ DistinctKeys
    /\ Len(inserted) = 3
    /\ inserted[1] = << <<2>>, <<>> >>
    /\ inserted[2] = << <<1, 2>>, <<8, 9>> >>
    /\ inserted[3] = << <<1>>, <<7>> >>
    /\ result.op = "get" /\ result.key = <<1, 2>>
    /\ result.res = Some(<<8, 9>>)

(* C2: hash store round trip.  After any insertion order of pairs with     *)
(* pairwise distinct keys, finish and HashDatStore::open, open succeeds    *)
(* and get(k) returns Some(v) with v the inserted value, for every         *)
(* inserted key k.                                                         *)
C2_HashRoundTrip ==
    (sealedBy = "hash" /\ DistinctKeys) =>
        /\ ~OpenFailed("hash")
        /\ (Built("hash") /\ result.op = "get") =>
               \A i \in 1..Len(inserted) :
                   inserted[i][1] = result.key
                       => result.res = Some(inserted[i][2])

\* Three distinct keys, and the get of the last inserted one returned its
\* value.
C2_Witness ==
    /\ Built("hash") /\ DistinctKeys
    /\ Len(inserted) = 3
    /\ inserted[3] = << <<1, 2>>, <<8, 9>> >>
    /\ result.op = "get" /\ result.key = <<1, 2>>
    /\ result.res = Some(<<8, 9>>)

(* C3: miss correctness.  For both engines and any built store, the empty  *)
(* one included, get of a key that was never inserted returns Ok(None):    *)
(* not a value, not an error.                                              *)
C3_MissReturnsNone ==
    ((Built("btree") \/ Built("hash")) /\ result.op = "get"
        /\ result.key \notin InsertedKeys)
        => result.res = None

\* A miss in a hash store that holds a key with the hash of the target.
C3_Witness ==
    /\ Built("hash")
    /\ result.op = "get" /\ result.key \notin InsertedKeys
    /\ \E k \in InsertedKeys : hash_key(k) = hash_key(result.key)
    /\ result.res = None

\* A miss in an empty flat store.
C3_WitnessEmptyFlat ==
    /\ Built("btree") /\ inserted = <<>>
    /\ result.op = "get" /\ result.res = None

(* C4: get never partial-matches.  For both engines get(k) returns a value *)
(* only if a stored key has the length and the bytes of k; a target that   *)
(* is a proper prefix or a proper extension of a stored key and is not     *)
(* stored itself yields absence.                                           *)
C4_NoPartialMatch ==
    ((Built("btree") \/ Built("hash")) /\ result.op = "get") =>
        /\ result.res.kind = "some" =>
               \E k \in InsertedKeys :
                   /\ Len(k) = Len(result.key)
                   /\ \A n \in 1..Len(k) : k[n] = result.key[n]
        /\ ( /\ result.key \notin InsertedKeys
             /\ \E k \in InsertedKeys :
                    ProperPrefix(result.key, k) \/ ProperPrefix(k, result.key) )
               => result.res = None

\* The flat store holds <<1, 2>> and not <<1>>; get(<<1>>) is absent.
C4_Witness ==
    /\ Built("btree")
    /\ <<1, 2>> \in InsertedKeys /\ <<1>> \notin InsertedKeys
    /\ result.op = "get" /\ result.key = <<1>>
    /\ result.res = None

(* C5: for both engines, after building from pairs with unique keys (zero  *)
(* pairs included) and opening, len() is the number of inserted keys and   *)
(* is_empty() is true exactly when that number is 0.                       *)
C5_LenIsKeyCount ==
    ((Built("btree") \/ Built("hash")) /\ DistinctKeys) =>
        /\ result.op = "len" => result.res = Cardinality(InsertedKeys)
        /\ result.op = "is_empty" =>
               (result.res <=> Cardinality(InsertedKeys) = 0)

\* len() returned 3 on a flat store of three keys.
C5_Witness ==
    /\ Built("btree") /\ DistinctKeys
    /\ Len(inserted) = 3
    /\ result.op = "len" /\ result.res = 3

(* C6: sort invariant.  keys() on an opened flat store returns the keys in *)
(* strictly ascending byte-lexicographic order, for every insertion order. *)
C6_FlatKeysSorted ==
    (Built("btree") /\ result.op = "keys") =>
        /\ result.res.kind = "some"
        /\ \A i \in 1..(Len(result.res.value) - 1) :
               LexLess(result.res.value[i], result.res.value[i + 1])

\* Keys inserted in descending order come back ascending.
C6_Witness ==
    /\ Built("btree")
    /\ Len(inserted) = 3
    /\ inserted[1][1] = <<2>> /\ inserted[2][1] = <<1, 2>>
    /\ inserted[3][1] = <<1>>
    /\ result.op = "keys"
    /\ result.res = Some(<< <<1>>, <<1, 2>>, <<2>> >>)

(* C7: collision correctness of the hash store.  When another inserted key *)
(* has the same start bucket or the same stored hash, get of a key still   *)
(* returns that key's own value: a bucket with the target's hash and       *)
(* another key is skipped and probing continues, also past the last bucket *)
(* to bucket 0.                                                            *)
C7_HashCollisions ==
    (Built("hash") /\ DistinctKeys /\ result.op = "get") =>
        \A i \in 1..Len(inserted) :
            ( /\ inserted[i][1] = result.key
              /\ \E j \in 1..Len(inserted) :
                     /\ j # i
                     /\ \/ StartBucket(inserted[j][1]) = StartBucket(result.key)
                        \/ hash_key(inserted[j][1]) = hash_key(result.key) )
                => result.res = Some(inserted[i][2])

\* Two keys with the identical hash 4 in a table of 5 buckets: the first
\* sits in the last bucket, the second wrapped to bucket 0 and is found.
C7_Witness ==
    /\ Built("hash") /\ DistinctKeys
    /\ store.bucket_count = 5
    /\ hash_key(inserted[1][1]) = 4 /\ hash_key(inserted[2][1]) = 4
    /\ store.buckets[4].key_hash = 4 /\ store.buckets[0].key_hash = 4
    /\ RecordKey(store.buckets[0]) = inserted[2][1]
    /\ result.op = "get" /\ result.key = inserted[2][1]
    /\ result.res = Some(inserted[2][2])

(* C8: keys() returns every stored key.  For both engines, on a store      *)
(* built from unique keys, keys() returns the inserted keys, each once,    *)
(* as many as len(); for the hash store in ascending bucket index order;   *)
(* on an empty store the empty sequence.                                   *)
C8_KeysComplete ==
    ((Built("btree") \/ Built("hash")) /\ DistinctKeys /\ result.op = "keys") =>
        /\ result.res.kind = "some"
        /\ { result.res.value[i] : i \in 1..Len(result.res.value) } = InsertedKeys
        /\ Len(result.res.value) = Cardinality(InsertedKeys)
        /\ Len(result.res.value) = StoreLen(store)
        /\ Built("hash") =>
               /\ Len(result.res.value) = Cardinality(OccupiedBuckets)
               /\ \A j \in 1..Len(result.res.value) :
                      result.res.value[j] = RecordKey(store.buckets[NthOccupied(j)])
        /\ inserted = <<>> => result.res.value = <<>>

\* A hash store of three keys whose bucket order is not the insertion order.
C8_Witness ==
    /\ Built("hash") /\ DistinctKeys
    /\ Len(inserted) = 3
    /\ result.op = "keys" /\ result.res.kind = "some"
    /\ Len(result.res.value) = 3
    /\ result.res.value[1] # inserted[1][1]

(* C9: open fails, for both engines, when the offsets declared in the      *)
(* header are inconsistent with the size of the file: a heap start offset, *)
(* an index start offset or a bucket array beyond the end of the file.     *)
FlatOffsetsBeyondFile ==
    /\ Len(file) >= 24
    /\ \/ FromLe(Slice(file, 8, 16)) > Len(file)
       \/ FromLe(Slice(file, 16, 24)) > Len(file)

HashOffsetsBeyondFile ==
    /\ Len(file) >= 24
    /\ \/ FromLe(Slice(file, 16, 24)) > Len(file)
       \/ 64 + 24 * FromLe(Slice(file, 8, 16)) > Len(file)

C9_OpenRejectsOffsetsBeyondFile ==
    pc = "opened" =>
        /\ FlatOffsetsBeyondFile => store.kind # "btree"
        /\ HashOffsetsBeyondFile => store.kind # "hash"

\* The half of C9 that the code keeps: the hash store's open.
C9_HashOpenRejectsOffsetsBeyondFile ==
    (pc = "opened" /\ HashOffsetsBeyondFile) => store.kind # "hash"

\* The hash store's open refused a header whose bucket array is beyond the
\* end of the file.
C9_HashWitness ==
    /\ OpenFailed("hash") /\ HashOffsetsBeyondFile
    /\ Slice(file, 0, 8) = HASH_MAGIC

(* C10: open rejects a wrong or absent magic tag.  For both engines open   *)
(* returns an error whenever the file is shorter than the header or its    *)
(* first 8 bytes differ from the engine's tag; a file sealed by the hash   *)
(* builder is rejected by the flat open and a file sealed by the flat      *)
(* builder by the hash open.                                               *)
C10_OpenRejectsBadMagic ==
    pc = "opened" =>
        /\ store.kind = "btree" =>
               /\ fileExists /\ Len(file) >= 64
               /\ Slice(file, 0, 8) = <<66, 84, 82, 69, 69, 73, 68, 88>>
        /\ store.kind = "hash" =>
               /\ fileExists /\ Len(file) >= 64
               /\ Slice(file, 0, 8) = <<72, 65, 83, 72, 73, 68, 88, 49>>
        /\ sealedBy = "hash" => store.kind # "btree"
        /\ sealedBy = "btree" => store.kind # "hash"

\* The flat open refused a file that the hash builder sealed with entries.
C10_Witness ==
    /\ OpenFailed("btree")
    /\ sealedBy = "hash" /\ Len(inserted) = 2

\* The hash open refused a file that the flat builder sealed.
C10_WitnessHashOpen ==
    /\ OpenFailed("hash")
    /\ sealedBy = "btree" /\ Len(inserted) = 2

\* The header of the file on the path is complete and carries the hash tag.
HashHeaderPresent ==
    fileExists /\ Len(file) >= HEADER_SIZE /\ Slice(file, 0, 8) = HASH_MAGIC

\* The header fields of the file on the path.
FileBucketCount == FromLe(Slice(file, 8, 16))
FileHeapOffset == FromLe(Slice(file, 16, 24))
FileEntryCount == FromLe(Slice(file, 24, 32))

\* Bucket i of the file's bucket array, decoded from the file bytes.
FileBucket(i) ==
    LET off == HEADER_SIZE + i * BUCKET_SIZE
    IN  [key_hash |-> FromLe(Slice(file, off, off + 8)),
         blob_offset |-> FromLe(Slice(file, off + 8, off + 16)),
         blob_len |-> FromLe(Slice(file, off + 16, off + 24))]

C11_WitnessTable ==
    /\ Built("hash") /\ result = NoResult /\ Len(inserted) = 3
    /\ FileBucketCount = 5
    /\ Cardinality(DOMAIN store.buckets) = 5
    /\ \E i \in DOMAIN store.buckets : store.buckets[i].key_hash # 0

\* The index in `inserted` of the last insertion of key k.
LastInsertion(k) ==
    CHOOSE i \in 1..Len(inserted) :
        /\ inserted[i][1] = k
        /\ \A j \in (i + 1)..Len(inserted) : inserted[j][1] # k

(* C13: flat-store duplicates, last write wins.  When a key is inserted    *)
(* several times before finish, get(k) on the opened flat store returns    *)
(* the value of the last insertion, keys() lists every inserted key        *)
(* exactly once, and len() is the number of distinct keys.                 *)
C13_FlatLastWriteWins ==
    Built("btree") =>
        /\ (result.op = "get" /\ result.key \in InsertedKeys) =>
               result.res = Some(inserted[LastInsertion(result.key)][2])
        /\ result.op = "keys" =>
               /\ result.res.kind = "some"
               /\ Len(result.res.value) = Cardinality(InsertedKeys)
               /\ \A k \in InsertedKeys :
                      Cardinality({ n \in 1..Len(result.res.value) :
                                        result.res.value[n] = k }) = 1
        /\ result.op = "len" => result.res = Cardinality(InsertedKeys)

\* <<1>> was inserted with the value <<7>> and then with the empty value,
\* and another key after it; get(<<1>>) returned the empty value.
C13_Witness ==
    /\ Built("btree")
    /\ Len(inserted) = 3
    /\ inserted[1] = << <<1>>, <<7>> >>
    /\ inserted[2] = << <<1>>, <<>> >>
    /\ inserted[3][1] # <<1>>
    /\ result.op = "get" /\ result.key = <<1>>
    /\ result.res = Some(<<>>)

\* len() returned 1 after three insertions of one key.
C13_WitnessLen ==
    /\ Built("btree")
    /\ Len(inserted) = 3 /\ Cardinality(InsertedKeys) = 1
    /\ result.op = "len" /\ result.res = 1

\* The value embedded in the heap record that a bucket points to, read from
\* the file.
RecordValue(b) ==
    Slice(file,
          b.blob_offset + 4 + FromLe(Slice(file, b.blob_offset, b.blob_offset + 4)),
          b.blob_offset + b.blob_len)

\* The occupied buckets whose heap record carries key k.
BucketsOf(k) == { i \in OccupiedBuckets : RecordKey(store.buckets[i]) = k }

\* The number of buckets from the start bucket of k to bucket i, going up
\* and wrapping to bucket 0.
ProbeDistance(k, i) ==
    (i + store.bucket_count - StartBucket(k)) % store.bucket_count

\* The bucket of k that the probe sequence of k reaches first.
FirstAlongProbe(k) ==
    CHOOSE i \in BucketsOf(k) :
        \A j \in BucketsOf(k) : ProbeDistance(k, i) <= ProbeDistance(k, j)

(* C14: the hash builder does not deduplicate.  Every insertion of a key,  *)
(* repeated ones included, owns one occupied bucket with the hash of the   *)
(* key and one heap record of its own, and get(key) returns the value of   *)
(* the record whose bucket comes first along the probe sequence that       *)
(* starts at hash % bucket_count.  (The table is inspected in the state    *)
(* that open leaves, the value in the state that get leaves.)              *)
C14_HashNoDedup ==
    Built("hash") =>
        /\ result = NoResult => \A k \in InsertedKeys :
               /\ Cardinality(BucketsOf(k)) =
                      Cardinality({ n \in 1..Len(inserted) : inserted[n][1] = k })
               /\ \A i \in BucketsOf(k) :
                      store.buckets[i].key_hash = hash_key(k)
               /\ \A i, j \in BucketsOf(k) :
                      i # j => store.buckets[i].blob_offset
                                   # store.buckets[j].blob_offset
        /\ (result.op = "get" /\ result.key \in InsertedKeys) =>
               result.res =
                   Some(RecordValue(store.buckets[FirstAlongProbe(result.key)]))

\* <<1, 2>> was inserted twice with different values: two buckets hold it,
\* and get returned the value of the first of them along the probe
\* sequence, which is the value of the first insertion.
C14_Witness ==
    /\ Built("hash")
    /\ Len(inserted) = 2
    /\ inserted[1] = << <<1, 2>>, <<7>> >>
    /\ inserted[2] = << <<1, 2>>, <<8, 9>> >>
    /\ Cardinality(BucketsOf(<<1, 2>>)) = 2
    /\ result.op = "get" /\ result.key = <<1, 2>>
    /\ result.res = Some(<<7>>)

\* The buckets of the file on the path whose stored hash is not 0.
FileOccupied ==
    { i \in 0..(FileBucketCount - 1) : FileBucket(i).key_hash # 0 }

(* C15: load-factor invariant.  In every file that                         *)
(* HashDatStoreBuilder::finish has sealed the non-empty buckets are at     *)
(* most 0.7 of                                                             *)
(* bucket_count, for every number of inserted entries; with 0 entries the  *)
(* file has a single bucket and it is empty.                               *)
C15_LoadFactor ==
    (pc = "sealed" /\ sealedBy = "hash") =>
        /\ FileBucketCount >= 1
        /\ Len(file) >= 64 + FileBucketCount * 24
        /\ 10 * Cardinality(FileOccupied) <= 7 * FileBucketCount
        /\ inserted = <<>> => (FileBucketCount = 1 /\ FileOccupied = {})

\* A file sealed from three entries: three of its five buckets are
\* occupied.
C15_Witness ==
    /\ pc = "sealed" /\ sealedBy = "hash"
    /\ Len(inserted) = 3
    /\ FileBucketCount = 5
    /\ Cardinality(FileOccupied) = 3

\* A file sealed from no entry: one empty bucket.
C15_WitnessEmpty ==
    /\ pc = "sealed" /\ sealedBy = "hash" /\ inserted = <<>>
    /\ FileBucketCount = 1 /\ FileBucket(0).key_hash = 0

(* C16: zero is reserved for empty buckets.  hash_key never returns 0, a   *)
(* raw hash of 0 being stored as 1; in a file that finish has sealed a     *)
(* bucket's                                                                *)
(* stored hash is 0 exactly when no entry was placed in it (its offset and *)
(* length are 0 and it points to no record), the buckets with a non-zero   *)
(* hash are as many as the insertions, and each carries the hash that the  *)
(* reader computes for the key of its record.                              *)
C16_ZeroIsEmpty ==
    /\ \A k \in Keys : hash_key(k) # 0
    /\ (pc = "sealed" /\ sealedBy = "hash") =>
           /\ \A i \in 0..(FileBucketCount - 1) :
                  /\ FileBucket(i).key_hash = 0 <=> FileBucket(i).blob_len = 0
                  /\ FileBucket(i).key_hash = 0 => FileBucket(i) = EmptyBucket
                  /\ FileBucket(i).key_hash # 0 =>
                         /\ RecordKey(FileBucket(i)) \in InsertedKeys
                         /\ FileBucket(i).key_hash
                                = hash_key(RecordKey(FileBucket(i)))
           /\ Cardinality(FileOccupied) = Len(inserted)

\* A key whose raw hash is 0 was sealed into a bucket with the stored hash
\* 1, next to an empty bucket.
C16_Witness ==
    /\ pc = "sealed" /\ sealedBy = "hash"
    /\ Len(inserted) = 1
    /\ hashOf[inserted[1][1]] = 0
    /\ \E i \in 0..(FileBucketCount - 1) :
           /\ FileBucket(i).key_hash = 1
           /\ RecordKey(FileBucket(i)) = inserted[1][1]
    /\ \E i \in 0..(FileBucketCount - 1) : FileBucket(i).key_hash = 0

\* No bucket of the opened hash store is empty and none points to a record
\* of key k.
SaturatedWithout(k) ==
    /\ store.bucket_count >= 1
    /\ \A i \in DOMAIN store.buckets :
           /\ store.buckets[i].key_hash # 0
           /\ store.buckets[i].blob_offset + store.buckets[i].blob_len <= Len(file)
           /\ RecordKey(store.buckets[i]) # k

(* C17: hash lookup terminates.  find_key examines at most bucket_count    *)
(* buckets, and on a table whose buckets are all occupied and none of      *)
(* which holds the target key it reports absence after bucket_count of     *)
(* them.                                                                   *)
C17_ProbeBound ==
    (pc = "opened" /\ store.kind = "hash" /\ result.op = "get") =>
        /\ result.probes <= store.bucket_count
        /\ SaturatedWithout(result.key) =>
               (result.res = None /\ result.probes = store.bucket_count)

\* get of a key on the saturated two-bucket file, one bucket of which
\* carries the hash of the key: both buckets were examined, the key is
\* absent.
C17_Witness ==
    /\ pc = "opened" /\ store.kind = "hash"
    /\ file = SaturatedFile
    /\ result.op = "get"
    /\ SaturatedWithout(result.key)
    /\ \E i \in DOMAIN store.buckets :
           store.buckets[i].key_hash = hash_key(result.key)
    /\ result.probes = 2
    /\ result.res = None

\* The handle after the step with the file cursor where open left it: no
\* call has moved it.
Fresh ==
    IF store'.kind = "hash" THEN [store' EXCEPT !.pos = 0] ELSE store'

(* C19: a sealed store is read-only.  Every get, keys, len and is_empty    *)
(* call on an opened store of either engine leaves the file bytes, the     *)
(* mapped bytes, the parsed header fields and the bucket table of the hash *)
(* store as they were (only the file cursor of the hash store moves), and  *)
(* returns for get(k) and keys() what the handle returns with its cursor   *)
(* where open left it, whatever calls were made before and wherever they   *)
(* left the cursor.                                                        *)
C19_ReadOnly ==
    [][ (pc = "opened" /\ store.kind \in {"btree", "hash"}) =>
            /\ file' = file /\ fileExists' = fileExists
            /\ store'.kind = store.kind
            /\ store.kind = "btree" => store' = store
            /\ store.kind = "hash" =>
                   store' = [store EXCEPT !.pos = store'.pos]
            /\ result'.op = "get" =>
                   result'.res = StoreGet(Fresh, result'.key).res
            /\ result'.op = "keys" =>
                   result'.res = StoreKeys(Fresh).res ]_vars

\* An earlier call left the cursor of the hash store's file inside the
\* heap, and get of an inserted key returned its value.
C19_Witness ==
    /\ Built("hash") /\ DistinctKeys
    /\ Len(inserted) = 3
    /\ result.op = "get" /\ result.key = inserted[1][1]
    /\ result.res = Some(inserted[1][2])
    /\ store.pos > 0

\* The cursor is inside the heap although the last call, a get that ended
\* at an empty start bucket, read nothing: an earlier call moved it.
C19_WitnessMovedCursor ==
    /\ Built("hash")
    /\ inserted # <<>>
    /\ result.op = "get" /\ result.res = None /\ result.probes = 1
    /\ store.buckets[StartBucket(result.key)].key_hash = 0
    /\ store.pos > 64 + store.bucket_count * 24

(* C12 as the contract words it: as soon as create has returned, and       *)
(* before any insert or finish, the file at the path exists and is empty.  *)
C12_CreateTruncates ==
    (pc = "building" /\ inserted = <<>>) => (fileExists /\ file = <<>>)

(* C12, amended: create of either custom builder only records the path.    *)
(* The path holds after create, and after every insert, exactly what it    *)
(* held before (nothing, or the previous content); it is finish that       *)
(* creates or truncates the file and writes the complete store, after      *)
(* which the previous content is gone.                                     *)
C12_CreateLeavesFile ==
    [][ /\ pc' = "building" => (fileExists' = fileExists /\ file' = file)
        /\ (pc = "building" /\ pc' = "sealed") =>
               /\ fileExists'
               /\ file' = IF builderKind = "btree"
                          THEN BTreeFinishBytes(btEntries)
                          ELSE HashFinishBytes(hashEntries)
               /\ Slice(file', 0, 8) \in {BTREE_MAGIC, HASH_MAGIC}
               /\ file' \notin PriorFiles ]_vars

\* A builder was created, and has taken an insert, on a path that holds a
\* store file: the file is still there with its content.
C12_Witness ==
    /\ pc = "building"
    /\ Len(inserted) = 1
    /\ fileExists /\ file = SaturatedFile

\* A builder was created on a path that holds nothing: there is still no
\* file.
C12_WitnessAbsent ==
    /\ pc = "building" /\ builderKind = "hash" /\ inserted = <<>>
    /\ ~fileExists

\* finish replaced the previous content of the path.
C12_WitnessSealed ==
    /\ pc = "sealed" /\ sealedBy = "btree" /\ inserted = <<>>
    /\ file = BTreeHeaderBytes(64, 64, 0)

\* Both handles were returned by open of the file's own engine.
TwoHandles ==
    /\ pc = "opened"
    /\ store.kind = sealedBy
    /\ store2.kind = sealedBy

(* C20: idempotent open.  The two handles that two opens of one sealed     *)
(* file return answer alike: the second open succeeds when the first did,  *)
(* len() is the same on both, and whenever the last keys() calls, or the   *)
(* last get calls of one key, on the two handles are compared, they        *)
(* returned the same result, whatever calls were made on either handle in  *)
(* between and in whatever order.                                          *)
C20_IdempotentOpen ==
    /\ (pc = "opened" /\ store.kind = sealedBy /\ store2 # NoStore
            /\ store2.kind # sealedBy)
           => (store2.kind = "err" /\ store2.engine # sealedBy)
    /\ TwoHandles =>
           /\ StoreLen(store) = StoreLen(store2)
           /\ (result.op = "len" /\ result2.op = "len")
                  => result.res = result2.res
           /\ (result.op = "keys" /\ result2.op = "keys")
                  => result.res = result2.res
           /\ (result.op = "get" /\ result2.op = "get"
                   /\ result.key = result2.key)
                  => result.res = result2.res

\* Both hash handles returned the value of the stored key.
C20_Witness ==
    /\ TwoHandles /\ sealedBy = "hash"
    /\ Len(inserted) = 1
    /\ result.op = "get" /\ result2.op = "get"
    /\ result.key = inserted[1][1] /\ result2.key = result.key
    /\ result.res = Some(inserted[1][2])
    /\ result2.res = result.res

\* Two hash handles whose cursors earlier calls left at different places
\* both reported the same key absent.
C20_WitnessCursors ==
    /\ TwoHandles /\ sealedBy = "hash"
    /\ Len(inserted) = 1
    /\ store.pos # store2.pos /\ store.pos > 0 /\ store2.pos > 0
    /\ result.op = "get" /\ result2.op = "get"
    /\ result2.key = result.key
    /\ result.res = None /\ result2.res = None

\* Two flat handles returned the same keys.
C20_WitnessFlat ==
    /\ TwoHandles /\ sealedBy = "btree"
    /\ Len(inserted) = 1
    /\ result.op = "keys" /\ result2.op = "keys"
    /\ result.res = Some(<<inserted[1][1]>>)
    /\ result2.res = result.res

\* The callers that hold the borrow of data_file.
Inside == { c \in Callers : callers[c].at \in {"borrowed", "sought", "read"} }

(* C18: seek-then-read is atomic per call.  On one HashDatStore handle at  *)
(* most one read_at invocation is between its borrow and its return, the   *)
(* cursor stands after the seek at the offset of that same invocation, and *)
(* the bytes an invocation has read are the bytes of the file at the       *)
(* offset it sought, under every interleaving of the callers' steps.       *)
C18_ReadAtAtomic ==
    /\ Cardinality(Inside) <= 1
    /\ borrowed <=> Inside # {}
    /\ \A c \in Callers :
           /\ callers[c].at = "sought" => store.pos = callers[c].offset
           /\ callers[c].at = "read" =>
                  /\ callers[c].offset + callers[c].len <= Len(file)
                  /\ callers[c].buf =
                         Some(Slice(file, callers[c].offset,
                                    callers[c].offset + callers[c].len))
                  /\ store.pos = callers[c].offset + callers[c].len

\* A caller has read the two key bytes of the record at the offset it
\* sought, while the other caller, which tried to enter read_at in the
\* meantime, was stopped by the borrow check.
C18_Witness ==
    /\ \E c \in Callers :
           /\ callers[c].at = "read"
           /\ callers[c].len = 2
           /\ callers[c].buf = Some(<<1, 2>>)
    /\ \E c \in Callers : callers[c].at = "panicked"

\* A builder of the hash store has just sealed the file on the path.
HashSealed == pc = "sealed" /\ sealedBy = "hash"

\* The buckets of the file on the cyclic path from bucket a up to and
\* including bucket b.
CyclicPath(a, b) ==
    { (a + d) % FileBucketCount :
          d \in 0..((b + FileBucketCount - a) % FileBucketCount) }

(* C21: linear-probing reachability.  In a file that the hash builder has  *)
(* sealed, for every occupied bucket j with stored hash h, every bucket on *)
(* the cyclic path from h % bucket_count up to and including j is          *)
(* occupied: a lookup that starts at h % bucket_count meets no empty       *)
(* bucket before j.                                                        *)
C21_ProbeReachability ==
    HashSealed =>
        \A j \in FileOccupied :
            \A i \in CyclicPath(FileBucket(j).key_hash % FileBucketCount, j) :
                FileBucket(i).key_hash # 0

\* Three entries with the hash 4 in five buckets: the third sits in bucket
\* 1, behind the occupied buckets 4 and 0.
C21_Witness ==
    /\ HashSealed
    /\ Len(inserted) = 3
    /\ FileBucketCount = 5
    /\ FileBucket(1).key_hash = 4
    /\ CyclicPath(4, 1) = {4, 0, 1}
    /\ FileOccupied = {4, 0, 1}

\* The buckets that the loop of finish has filled after the first m of the
\* inserted entries, in a table of bucket_count buckets.
FilledAfter(m, bucket_count) ==
    LET t == HashPlace(SubSeq(inserted, 1, m), 1,
                       [b \in 0..(bucket_count - 1) |-> EmptyBucket],
                       bucket_count, <<>>, HEADER_SIZE + bucket_count * BUCKET_SIZE)
    IN  { i \in 0..(bucket_count - 1) : t.buckets[i].key_hash # 0 }

(* C22: the probe loop of the hash builder terminates.  bucket_count is    *)
(* greater than the number of inserted entries, so before each insertion   *)
(* is placed the table has an empty bucket, and the sealed file keeps at   *)
(* least one empty bucket; a lookup of a key that was never inserted       *)
(* therefore ends with absence at an empty bucket, within bucket_count     *)
(* probes.                                                                 *)
C22_BuilderProbeTerminates ==
    /\ HashSealed =>
           /\ FileBucketCount > Len(inserted)
           /\ \A m \in 0..(Len(inserted) - 1) :
                  Cardinality(FilledAfter(m, FileBucketCount)) < FileBucketCount
           /\ \E i \in 0..(FileBucketCount - 1) : FileBucket(i).key_hash = 0
    /\ (Built("hash") /\ result.op = "get" /\ result.key \notin InsertedKeys) =>
           /\ result.res = None
           /\ result.probes >= 1 /\ result.probes <= store.bucket_count
           /\ store.buckets[(StartBucket(result.key) + result.probes - 1)
                                % store.bucket_count].key_hash = 0

\* Three entries with the hash of the absent target fill buckets 4, 0 and
\* 1 of five; the lookup passed them and ended at the empty bucket 2.
C22_Witness ==
    /\ Built("hash")
    /\ Len(inserted) = 3
    /\ result.op = "get" /\ result.key \notin InsertedKeys
    /\ StartBucket(result.key) = 4
    /\ result.probes = 4
    /\ result.res = None

---------------------------------------------------------------------------
(* The index region of a flat file, decoded entry by entry. *)

\* The index entries between two offsets of the file, in file order.
RECURSIVE IndexEntriesFrom(_, _)
IndexEntriesFrom(offset, end) ==
    IF offset + 4 > end THEN <<>>
    ELSE LET key_len == FromLe(Slice(file, offset, offset + 4))
             o2 == offset + 4 + key_len
         IN  IF o2 + 16 > end THEN <<>>
             ELSE <<[key |-> Slice(file, offset + 4, o2),
                     offset |-> FromLe(Slice(file, o2, o2 + 8)),
                     len |-> FromLe(Slice(file, o2 + 8, o2 + 16))]>>
                  \o IndexEntriesFrom(o2 + 16, end)

\* The index entries of the file, from the index-region start to the heap
\* start that its header declares.
IndexEntries ==
    IndexEntriesFrom(FromLe(Slice(file, 8, 16)), FromLe(Slice(file, 16, 24)))

\* The payload bytes an index entry points at.
EntryValue(e) == Slice(file, e.offset, e.offset + e.len)

\* The positions of the entries whose key is not below the key k.
NotBelow(E, k) == { i \in 1..Len(E) : E[i].key = k \/ LexLess(k, E[i].key) }

\* The smallest member of a non-empty set of numbers.
Least(S) == CHOOSE i \in S : \A j \in S : i <= j

C23_WitnessFound ==
    /\ Built("btree")
    /\ result.op = "get"
    /\ Len(IndexEntries) = 3
    /\ result.key = IndexEntries[2].key
    /\ result.visited = 2
    /\ result.res = Some(EntryValue(IndexEntries[2]))

---------------------------------------------------------------------------
(* The layout of a sealed flat file. *)

\* The flat builder sealed the file and nothing has been opened since.
FlatSealed == pc = "sealed" /\ sealedBy = "btree"

\* The bytes the index entries of a set of keys occupy.
RECURSIVE IndexBytesOf(_)
IndexBytesOf(S) ==
    IF S = {} THEN 0
    ELSE LET k == CHOOSE x \in S : TRUE
         IN  (4 + Len(k) + 8 + 8) + IndexBytesOf(S \ {k})

\* C24: in every file sealed by BTreeDatStoreBuilder::finish the header's
\* index-region start offset is 64, its heap start offset is 64 plus the
\* sum over the distinct inserted keys of 4 + key length + 8 + 8, its entry
\* count is the number of distinct keys, and its bytes 32..64 are zero.
C24_FlatHeaderConsistency ==
    FlatSealed =>
        /\ Len(file) >= 64
        /\ FromLe(Slice(file, 8, 16)) = 64
        /\ FromLe(Slice(file, 16, 24)) = 64 + IndexBytesOf(InsertedKeys)
        /\ FromLe(Slice(file, 24, 32)) = Cardinality(InsertedKeys)
        /\ \A i \in 33..64 : file[i] = 0

\* Three insertions of two distinct keys were sealed: the heap starts after
\* two index entries, of 21 and 22 bytes.
C24_Witness ==
    /\ FlatSealed
    /\ Len(inserted) = 3
    /\ InsertedKeys = { <<1>>, <<1, 2>> }
    /\ FromLe(Slice(file, 16, 24)) = 64 + 21 + 22
    /\ FromLe(Slice(file, 24, 32)) = 2

\* The value the flat builder holds for a key: that of its last insertion.
HeldValue(k) == inserted[LastInsertion(k)][2]

\* The bytes of the file from the heap start its header declares to its end.
FlatHeap == Slice(file, FromLe(Slice(file, 16, 24)), Len(file))

\* The payloads of the first n index entries, one after the other.
RECURSIVE PayloadsUpTo(_, _)
PayloadsUpTo(E, n) ==
    IF n = 0 THEN <<>> ELSE PayloadsUpTo(E, n - 1) \o HeldValue(E[n].key)

\* C25: in a sealed flat file the index holds one entry per distinct key in
\* ascending key order; the first entry's payload offset is the heap start
\* offset, each later entry's offset is the previous entry's offset plus the
\* previous entry's length, each entry's length is the length of its key's
\* value, the heap is the values concatenated in index order, and every
\* (offset, length) range lies inside the file.
C25_FlatPayloadOffsets ==
    FlatSealed =>
        LET E == IndexEntries
            n == Len(E)
        IN  /\ n = Cardinality(InsertedKeys)
            /\ { E[i].key : i \in 1..n } = InsertedKeys
            /\ \A i \in 1..(n - 1) : LexLess(E[i].key, E[i + 1].key)
            /\ n > 0 => E[1].offset = FromLe(Slice(file, 16, 24))
            /\ \A i \in 2..n : E[i].offset = E[i - 1].offset + E[i - 1].len
            /\ \A i \in 1..n :
                   /\ E[i].len = Len(HeldValue(E[i].key))
                   /\ E[i].offset + E[i].len <= Len(file)
                   /\ EntryValue(E[i]) = HeldValue(E[i].key)
            /\ FlatHeap = PayloadsUpTo(E, n)

\* Three keys with values of lengths 1, 2 and 0 were sealed: the offsets
\* advance by 1 and by 2 from the heap start, and the heap has 3 bytes.
C25_Witness ==
    /\ FlatSealed
    /\ Len(IndexEntries) = 3
    /\ IndexEntries[1].len = 1
    /\ IndexEntries[2].len = 2
    /\ IndexEntries[2].offset = IndexEntries[1].offset + 1
    /\ IndexEntries[3].offset = IndexEntries[1].offset + 3
    /\ IndexEntries[3].len = 0
    /\ Len(FlatHeap) = 3

---------------------------------------------------------------------------
(* The layout of a sealed hash file. *)

\* The heap record of the i-th insertion, written out byte by byte.
RecordOf(i) ==
    ToLe(Len(inserted[i][1]), 4) \o inserted[i][1] \o inserted[i][2]

\* The records of the first n insertions, one after the other.
RECURSIVE RecordsUpTo(_)
RecordsUpTo(n) == IF n = 0 THEN <<>> ELSE RecordsUpTo(n - 1) \o RecordOf(n)

\* Where the record of the i-th insertion starts: the heap start plus the
\* total size of the records before it.
RecordOffset(i) == FileHeapOffset + Len(RecordsUpTo(i - 1))

\* The buckets of the file that point at the record of the i-th insertion.
BucketsAt(i) ==
    { j \in FileOccupied : FileBucket(j).blob_offset = RecordOffset(i) }

\* C26: in a sealed hash file the heap is the records of the insertions, in
\* insertion order, each being 4-byte key length + key + value; exactly one
\* bucket is written for the i-th insertion, with offset = heap start +
\* total size of the earlier records and length = 4 + key length + value
\* length; the record's last (length - 4 - key length) bytes are the
\* inserted value, which is what get returns for the bucket it finds; and
\* the record ranges lie in the file and never overlap.
C26_HashHeapLayout ==
    HashSealed =>
        LET n == Len(inserted)
        IN  /\ Slice(file, FileHeapOffset, Len(file)) = RecordsUpTo(n)
            /\ Cardinality(FileOccupied) = n
            /\ \A i \in 1..n :
                   /\ Cardinality(BucketsAt(i)) = 1
                   /\ \A j \in BucketsAt(i) :
                          LET b == FileBucket(j)
                              k == inserted[i][1]
                              v == inserted[i][2]
                          IN  /\ b.blob_len = 4 + Len(k) + Len(v)
                              /\ b.key_hash = hash_key(k)
                              /\ b.blob_offset + b.blob_len <= Len(file)
                              /\ RecordKey(b) = k
                              /\ RecordValue(b) = v
                              /\ Len(RecordValue(b)) = b.blob_len - 4 - Len(k)
            /\ \A i, j \in 1..n :
                   i < j => RecordOffset(i) + Len(RecordOf(i)) <= RecordOffset(j)
            /\ \A k \in InsertedKeys :
                   LET g == HashGet(HashOpen(fileExists, file), k).res
                   IN  \E j \in FileOccupied :
                           /\ RecordKey(FileBucket(j)) = k
                           /\ g = Some(RecordValue(FileBucket(j)))

\* Three insertions with values of lengths 1, 2 and 0 were sealed: the
\* records of 6, 8 and 5 bytes follow each other from the heap start, 184.
C26_Witness ==
    /\ HashSealed
    /\ Len(inserted) = 3
    /\ FileHeapOffset = 64 + 5 * 24
    /\ Len(RecordOf(1)) = 6
    /\ Len(RecordOf(2)) = 8
    /\ Len(RecordOf(3)) = 5
    /\ RecordOffset(3) = 184 + 14
    /\ Len(file) = 184 + 19
    /\ \E j \in FileOccupied :
           FileBucket(j) = [key_hash |-> hash_key(inserted[3][1]),
                            blob_offset |-> 198, blob_len |-> 5]

---------------------------------------------------------------------------
(* The bucket count of finish as a function of the number of entries: a    *)
(* hash builder that holds n insertions of one pair, for every n up to     *)
(* MaxCount, is sealed.                                                     *)

MaxCount == 24

\* A hash builder after n calls of insert with the same pair.
InitCount ==
    /\ hashOf \in [Keys -> HashVals]
    /\ fileExists = FALSE
    /\ file = <<>>
    /\ sealedBy = "none"
    /\ pc = "building"
    /\ builderKind = "hash"
    /\ btEntries = EmptyMap
    /\ \E kv \in Pairs : \E n \in 0..MaxCount : hashEntries = [i \in 1..n |-> kv]
    /\ inserted = hashEntries
    /\ store = NoStore
    /\ result = NoResult
    /\ store2 = NoStore
    /\ result2 = NoResult
    /\ borrowed = FALSE
    /\ callers = NoCallers

NextCount == HashFinish

SpecCount == InitCount /\ [][NextCount]_vars

\* C27, as stated: for n inserted entries (duplicates counted) the sealed
\* file's bucket count is exactly max(1, ceil(n / 0.7)), the header's entry
\* count is n, and the heap start offset is 64 + 24 * bucket_count.
C27_BucketCountExact ==
    HashSealed =>
        LET n == Len(inserted)
            ceil == (10 * n + 6) \div 7
        IN  /\ FileBucketCount = (IF ceil < 1 THEN 1 ELSE ceil)
            /\ FileEntryCount = n
            /\ FileHeapOffset = 64 + 24 * FileBucketCount

\* C27, as the code has it: the bucket count is max(1, ceil(n / 0.7)) in
\* f64 arithmetic.  The f64 quotient is never below the exact one, so the
\* count is the exact ceiling or one more; for n below 42 it is the exact
\* ceiling except at n = 21, where 21.0 / 0.7 rounds to
\* 30.000000000000004 and the file gets 31 buckets, not 30.  The header's
\* entry count is n and the heap start offset is 64 + 24 * bucket_count.
C27_BucketCountF64 ==
    HashSealed =>
        LET n == Len(inserted)
            ceil == (10 * n + 6) \div 7
            exact == IF ceil < 1 THEN 1 ELSE ceil
        IN  /\ FileBucketCount \in { exact, exact + 1 }
            /\ n < 42 =>
                   FileBucketCount = exact + (IF n = 21 THEN 1 ELSE 0)
            /\ FileEntryCount = n
            /\ FileHeapOffset = 64 + 24 * FileBucketCount

\* 21 entries were sealed into a file of 31 buckets, one more than
\* ceil(21 / 0.7) = 30.
C27_Divergence ==
    /\ HashSealed
    /\ Len(inserted) = 21
    /\ FileBucketCount = 31
    /\ FileEntryCount = 21
    /\ FileHeapOffset = 64 + 24 * 31

---------------------------------------------------------------------------
\* C28, as stated: on a flat store get compares no index entry that lies at
\* or beyond the declared heap start offset (the scan stops where the next
\* entry would cross it), and no get or keys on an opened store of either
\* engine reads outside the file's actual bytes: the call stops or returns
\* an error, it does not fail on an out-of-range access.
C28_ScansStayInBounds ==
    (pc = "opened" /\ store.kind \in {"btree", "hash"}
                   /\ result.op \in {"get", "keys"}) =>
        /\ result.res.kind # "panic"
        /\ (store.kind = "btree" /\ result.op = "get"
                /\ store.blob_heap_offset <= Len(file)) =>
               result.visited <= Len(IndexEntries)

\* Where the code departs from it: a flat store opened from a 64-byte file
\* whose header declares the heap start at 200 panics in get, on the slice
\* of the first length prefix.
C28_FlatScanPanics ==
    /\ pc = "opened"
    /\ store.kind = "btree"
    /\ file = BTreeHeaderBytes(64, 200, 1)
    /\ result.op = "get"
    /\ result.res = Panic

---------------------------------------------------------------------------
\* C29, as stated: every store that HashDatStore::open accepts has
\* bucket_count >= 1, so the start index hash % bucket_count that get
\* computes is defined and a valid index into the bucket table, and get
\* does not fail on it.
C29_OpenedBucketCountPositive ==
    (pc = "opened" /\ store.kind = "hash") =>
        /\ store.bucket_count >= 1
        /\ \A k \in Keys : hash_key(k) % store.bucket_count \in DOMAIN store.buckets
        /\ result.op = "get" => result.res # Panic

\* Where the code departs from it: open accepted a header of 0 buckets with
\* the heap start at 64, and get panicked on the remainder by zero.
C29_ZeroBuckets ==
    /\ pc = "opened"
    /\ store.kind = "hash"
    /\ file = HashHeaderBytes(0, HEADER_SIZE, 0)
    /\ store.bucket_count = 0
    /\ result.op = "get"
    /\ result.res = Panic
    /\ result.probes = 0

---------------------------------------------------------------------------
\* The first insertion of the key k.
FirstInsertion(k) ==
    CHOOSE i \in 1..Len(inserted) :
        /\ inserted[i][1] = k
        /\ \A j \in 1..(i - 1) : inserted[j][1] # k

\* How many times the key k was inserted.
InsertionsOf(k) == Cardinality({ i \in 1..Len(inserted) : inserted[i][1] = k })

\* C30: duplicates in the hash store.  For every insertion sequence,
\* repeated keys included, get(key) returns the value of the first
\* insertion of the key, len() is the number of insert calls, the number
\* of non-empty buckets is that number too, and keys() lists every key
\* once per insertion of it.
C30_EarliestInsertionWins ==
    Built("hash") =>
        /\ (result.op = "get" /\ result.key \in InsertedKeys) =>
               result.res = Some(inserted[FirstInsertion(result.key)][2])
        /\ result.op = "len" =>
               /\ result.res = Len(inserted)
               /\ Cardinality(OccupiedBuckets) = result.res
        /\ result.op = "keys" =>
               /\ result.res.kind = "some"
               /\ Len(result.res.value) = Len(inserted)
               /\ \A k \in Keys :
                      Cardinality({ i \in 1..Len(result.res.value) :
                                       result.res.value[i] = k })
                          = InsertionsOf(k)

\* <<1>> was inserted with <<7>>, then with <<>>, then with <<7>> again:
\* get returned the first value.
C30_Witness ==
    /\ Built("hash")
    /\ inserted = << << <<1>>, <<7>> >>, << <<1>>, <<>> >>, << <<1>>, <<7>> >> >>
    /\ result.op = "get"
    /\ result.key = <<1>>
    /\ result.res = Some(<<7>>)

\* Of three insertions two were of <<2>>: len() returned 3 and three
\* buckets are filled.
C30_WitnessLen ==
    /\ Built("hash")
    /\ Len(inserted) = 3
    /\ InsertionsOf(<<2>>) = 2
    /\ result = [op |-> "len", res |-> 3]
    /\ Cardinality(OccupiedBuckets) = 3

\* Of three insertions two were of <<2>>: keys() returned <<2>> twice.
C30_WitnessKeys ==
    /\ Built("hash")
    /\ Len(inserted) = 3
    /\ InsertionsOf(<<2>>) = 2
    /\ InsertionsOf(<<1, 2>>) = 1
    /\ result.op = "keys"
    /\ Cardinality({ i \in 1..3 : result.res.value[i] = <<2>> }) = 2

====
